---- MODULE Spec2Model ----
(***************************************************************************)
(* HL7AutoCT: the HL7 v2 field decoder (parse_field), the field encoder    *)
(* (flatten_value), the message splitter (split_hl7_messages,              *)
(* getSegments), the message assembler (hl7_to_custom_json) and the        *)
(* tabular projector (convert_to_parquet_tables).                          *)
(*                                                                         *)
(* A Python str is a sequence of one-character strings.  A Python value is *)
(* a record whose single field names its type:                             *)
(*   [str |-> chars]   [list |-> items]   [int |-> n]   [none |-> TRUE]    *)
(*   [dict |-> pairs]  and an exception that escapes is [raise |-> name].  *)
(***************************************************************************)
EXTENDS Integers, Sequences, FiniteSets, TLC

VARIABLES
    pc,        \* position of the caller: which function has returned so far
    field,     \* parse_field's argument (raw field text)
    decoded,   \* parse_field's result
    value,     \* flatten_value's argument
    encoded,   \* flatten_value's result
    source_msgs, \* the message texts the blob was concatenated from
    raw_data,  \* split_hl7_messages' argument (the blob)
    messages,  \* split_hl7_messages' result
    msg,       \* getSegments' argument
    segments,  \* getSegments' result
    HL7Message,      \* hl7_to_custom_json's argument (one message text)
    assembled,       \* hl7_to_custom_json's result
    parsed_messages, \* the list of assembled messages given to the projector
    schema,          \* the segment schema given to the projector
    tables,          \* convert_to_parquet_tables' result
    value_list,      \* format_value_list's argument
    formatted,       \* format_value_list's result
    max_retries, \* invoke_with_backoff's retry limit
    attempt,   \* invoke_with_backoff's loop variable
    wait,      \* whole seconds of the last back-off sleep
    invocations, \* the outcomes of the calls of bedrock.invoke_model so far
    response,  \* what invoke_with_backoff returned or raised
    event,     \* lambda_handler's argument
    hl7_raw,   \* lambda_handler's message text
    effects,   \* the calls of S3 and Step Functions made so far, with their outcomes
    output_keys, \* store_parquet_to_s3's list of stored segment tables
    statusCode \* the status of the response lambda_handler returned

asmVars == <<HL7Message, assembled>>
projVars == <<parsed_messages, schema, tables>>
fmtVars == <<value_list, formatted>>
retryVars == <<max_retries, attempt, wait, invocations, response>>
handlerVars == <<event, hl7_raw, effects, output_keys, statusCode>>
extVars == <<fmtVars, retryVars, handlerVars>>
coreVars == <<field, decoded, value, encoded, source_msgs, raw_data, messages, msg, segments,
              asmVars, projVars>>
vars == <<pc, field, decoded, value, encoded, source_msgs, raw_data, messages, msg, segments,
          asmVars, projVars, extVars>>

(***************************************************************************)
(* Bounds of the model.                                                    *)
(***************************************************************************)
MaxFieldLen == 5    \* longest raw field text drawn for parse_field
MaxStrLen == 4      \* longest string drawn as an argument of flatten_value
MaxListLen == 2     \* longest hand-built list drawn for flatten_value
MaxDepth == 3       \* most list levels wrapped around a hand-built value
MaxPieces == 5      \* most pieces (header tokens and body pieces) in one blob
MaxWsLen == 2       \* longest whitespace-only input drawn
MaxMsgPieces == 5   \* most pieces (names, fields, line breaks) in one message text
MaxBatchLen == 4    \* most segment lines and message breaks in one projected batch
MaxValueListLen == 2 \* longest list or tuple drawn for format_value_list
MaxBlobPieces == 4
MaxRetries == 3
MaxLinePieces == 5  \* most pieces (segment lines, CR and LF) in one message text

(***************************************************************************)
(* Python values.                                                          *)
(***************************************************************************)
Str(s) == [str |-> s]
List(xs) == [list |-> xs]
PyInt(n) == [int |-> n]
None == [none |-> TRUE]
Dict(kvs) == [dict |-> kvs]
Raise(e) == [raise |-> e]
Tuple(xs) == [tuple |-> xs]
NoValue == [unset |-> TRUE]

\* The variables of the other components, not yet assigned.
FormatUnset ==
    /\ value_list = NoValue
    /\ formatted = NoValue

RetryUnset ==
    /\ max_retries = NoValue
    /\ attempt = NoValue
    /\ wait = NoValue
    /\ invocations = NoValue
    /\ response = NoValue

HandlerUnset ==
    /\ event = NoValue
    /\ hl7_raw = NoValue
    /\ effects = NoValue
    /\ output_keys = NoValue
    /\ statusCode = NoValue

ExtUnset == FormatUnset /\ RetryUnset /\ HandlerUnset

CoreUnset ==
    /\ field = NoValue
    /\ decoded = NoValue
    /\ value = NoValue
    /\ encoded = NoValue
    /\ source_msgs = NoValue
    /\ raw_data = NoValue
    /\ messages = NoValue
    /\ msg = NoValue
    /\ segments = NoValue
    /\ HL7Message = NoValue
    /\ assembled = NoValue
    /\ parsed_messages = NoValue
    /\ schema = NoValue
    /\ tables = NoValue

IsStr(v) == DOMAIN v = {"str"}
IsList(v) == DOMAIN v = {"list"}
IsInt(v) == DOMAIN v = {"int"}
IsNone(v) == DOMAIN v = {"none"}
IsDict(v) == DOMAIN v = {"dict"}
IsTuple(v) == DOMAIN v = {"tuple"}
IsRaise(v) == DOMAIN v = {"raise"}

(***************************************************************************)
(* Python string primitives.                                               *)
(***************************************************************************)
\* All sequences over alphabet A of length at most n.
RECURSIVE SeqsUpTo(_, _)
SeqsUpTo(A, n) ==
    IF n = 0 THEN {<<>>}
    ELSE LET shorter == SeqsUpTo(A, n - 1)
         IN shorter \cup {Append(s, c) : s \in {t \in shorter : Len(t) = n - 1}, c \in A}

\* c in s
Contains(s, c) == \E i \in 1..Len(s) : s[i] = c

\* s.startswith(p)
StartsWith(s, p) == Len(s) >= Len(p) /\ SubSeq(s, 1, Len(p)) = p

\* s.endswith(p)
EndsWith(s, p) == Len(s) >= Len(p) /\ SubSeq(s, Len(s) - Len(p) + 1, Len(s)) = p

\* s.find(p): the first index (1-based) at which p occurs in s, 0 if none.
Find(s, p) ==
    LET hits == {i \in 1..(Len(s) - Len(p) + 1) : SubSeq(s, i, i + Len(p) - 1) = p}
    IN IF hits = {} THEN 0 ELSE CHOOSE i \in hits : \A j \in hits : i <= j

\* str.split(sep) and re.split(literal, s): the pieces of s between the
\* non-overlapping occurrences of the non-empty text sep, left to right;
\* always at least one piece.
RECURSIVE Split(_, _)
Split(s, sep) ==
    LET i == Find(s, sep)
    IN IF i = 0 THEN <<s>>
       ELSE <<SubSeq(s, 1, i - 1)>> \o Split(SubSeq(s, i + Len(sep), Len(s)), sep)

\* sep.join(xs) for a list xs of strings
RECURSIVE Join(_, _)
Join(xs, sep) ==
    IF Len(xs) = 0 THEN <<>>
    ELSE IF Len(xs) = 1 THEN xs[1]
    ELSE xs[1] \o sep \o Join(Tail(xs), sep)

\* The characters str.strip() removes, among those the model draws.
Whitespace == {" ", "\n", "\r", "\t"}

\* s.strip()
RECURSIVE LStrip(_)
LStrip(s) == IF Len(s) > 0 /\ s[1] \in Whitespace THEN LStrip(Tail(s)) ELSE s
RECURSIVE RStrip(_)
RStrip(s) ==
    IF Len(s) > 0 /\ s[Len(s)] \in Whitespace THEN RStrip(SubSeq(s, 1, Len(s) - 1)) ELSE s
Strip(s) == LStrip(RStrip(s))

(***************************************************************************)
(* Field Decoder: parse_field (src/hl7v2_parser.py:76-100).                *)
(***************************************************************************)
\* Lines 80-86 and 92-98: the component list of one chunk.
CompList(rep) ==
    LET components == Split(rep, <<"^">>)
    IN [i \in 1..Len(components) |->
            IF Contains(components[i], "&")
            THEN List([j \in 1..Len(Split(components[i], <<"&">>)) |->
                           Str(Split(components[i], <<"&">>)[j])])
            ELSE Str(components[i])]

\* Mutant: the single-chunk branch returns comp_list without the collapse.
parse_field_nocollapse(f) ==
    LET repetitions == Split(f, <<"~">>)
    IN IF Len(repetitions) = 1
       THEN List(CompList(repetitions[1]))
       ELSE List([i \in 1..Len(repetitions) |-> List(CompList(repetitions[i]))])

\* Mutant: empty chunks are dropped before decoding, as by
\* [rep for rep in field.split('~') if rep].
parse_field_skipempty(f) ==
    LET all == Split(f, <<"~">>)
        idx == {i \in 1..Len(all) : all[i] # <<>>}
        nth(k) == CHOOSE i \in idx : Cardinality({j \in idx : j <= i}) = k
        repetitions == [k \in 1..Cardinality(idx) |-> all[nth(k)]]
    IN IF Len(repetitions) = 0 THEN Str(<<>>)
       ELSE IF Len(repetitions) = 1
       THEN LET comp_list == CompList(repetitions[1])
            IN IF Len(comp_list) > 1 THEN List(comp_list) ELSE comp_list[1]
       ELSE List([i \in 1..Len(repetitions) |-> List(CompList(repetitions[i]))])

\* Mutant: comp_list[0] is read without the length-1 test, as if an empty
\* chunk produced no component.
parse_field_emptyraises(f) ==
    LET repetitions == Split(f, <<"~">>)
    IN IF Len(repetitions) = 1
       THEN LET comp_list == IF repetitions[1] = <<>> THEN <<>> ELSE CompList(repetitions[1])
            IN IF Len(comp_list) > 1 THEN List(comp_list)
               ELSE IF Len(comp_list) = 0 THEN Raise("IndexError")
               ELSE comp_list[1]
       ELSE List([i \in 1..Len(repetitions) |-> List(CompList(repetitions[i]))])

parse_field(f) ==
    LET repetitions == Split(f, <<"~">>)
    IN IF Len(repetitions) = 1
       THEN LET comp_list == CompList(repetitions[1])
            IN IF Len(comp_list) > 1 THEN List(comp_list)
               ELSE IF Len(comp_list) = 0 THEN Raise("IndexError")  \* comp_list[0]
               ELSE comp_list[1]
       ELSE List([i \in 1..Len(repetitions) |-> List(CompList(repetitions[i]))])

(***************************************************************************)
(* Python str() and repr() of the values the model draws.  The strings     *)
(* drawn hold no quote ', no backslash and no control character, so the    *)
(* repr of a str is the text between single quotes.                        *)
(***************************************************************************)
DigitChars == <<"0", "1", "2", "3", "4", "5", "6", "7", "8", "9">>

RECURSIVE IntToStr(_)
IntToStr(n) ==
    IF n < 10 THEN <<DigitChars[n + 1]>>
    ELSE IntToStr(n \div 10) \o <<DigitChars[(n % 10) + 1]>>

RECURSIVE pyrepr(_)
pyrepr(v) ==
    IF IsStr(v) THEN <<"'">> \o v.str \o <<"'">>
    ELSE IF IsInt(v) THEN IntToStr(v.int)
    ELSE IF IsNone(v) THEN <<"N", "o", "n", "e">>
    ELSE IF IsList(v)
    THEN <<"[">> \o Join([i \in 1..Len(v.list) |-> pyrepr(v.list[i])], <<",", " ">>) \o <<"]">>
    ELSE IF IsTuple(v)
    THEN <<"(">> \o Join([i \in 1..Len(v.tuple) |-> pyrepr(v.tuple[i])], <<",", " ">>)
         \o (IF Len(v.tuple) = 1 THEN <<",">> ELSE <<>>) \o <<")">>
    ELSE \* dict
         <<"{">> \o Join([i \in 1..Len(v.dict) |->
                             pyrepr(v.dict[i][1]) \o <<":", " ">> \o pyrepr(v.dict[i][2])],
                         <<",", " ">>) \o <<"}">>

pystr(v) == IF IsStr(v) THEN v.str ELSE pyrepr(v)

(***************************************************************************)
(* json.loads on the texts the model draws: arrays, strings and unsigned   *)
(* integers, with JSON whitespace.  Any other first character of a value   *)
(* is a decode error (the letters of true/false/null/NaN, '{', '-', '.'    *)
(* and the backslash are outside the model's alphabet).                    *)
(***************************************************************************)
JsonWhitespace == {" ", "\t", "\n", "\r"}
JsonDigits == {DigitChars[i] : i \in 1..10}
DigitValue(c) == (CHOOSE i \in 1..10 : DigitChars[i] = c) - 1
JSONDecodeError == Raise("JSONDecodeError")
ScanFail == [ok |-> FALSE, v |-> NoValue, i |-> 0]
ScanOk(v, i) == [ok |-> TRUE, v |-> v, i |-> i]

\* The first index >= i of s that holds no whitespace (Len(s) + 1 if none).
RECURSIVE SkipWs(_, _)
SkipWs(s, i) == IF i <= Len(s) /\ s[i] \in JsonWhitespace THEN SkipWs(s, i + 1) ELSE i

\* The end of the run of digits that starts at i (the number's last index).
RECURSIVE DigitsEnd(_, _)
DigitsEnd(s, i) == IF i + 1 <= Len(s) /\ s[i + 1] \in JsonDigits THEN DigitsEnd(s, i + 1) ELSE i

RECURSIVE DigitsValue(_)
DigitsValue(ds) ==
    IF Len(ds) = 0 THEN 0
    ELSE 10 * DigitsValue(SubSeq(ds, 1, Len(ds) - 1)) + DigitValue(ds[Len(ds)])

RECURSIVE scan_once(_, _)
RECURSIVE JSONArrayItems(_, _, _)

\* json.decoder.JSONArray after the opening bracket.
JSONArray(s, i) ==
    LET j == SkipWs(s, i)
    IN IF j <= Len(s) /\ s[j] = "]" THEN ScanOk(List(<<>>), j + 1)
       ELSE JSONArrayItems(s, j, <<>>)

JSONArrayItems(s, i, acc) ==
    LET r == scan_once(s, i)
    IN IF ~r.ok THEN ScanFail
       ELSE LET j == SkipWs(s, r.i)
            IN IF j > Len(s) THEN ScanFail
               ELSE IF s[j] = "]" THEN ScanOk(List(Append(acc, r.v)), j + 1)
               ELSE IF s[j] = "," THEN JSONArrayItems(s, SkipWs(s, j + 1), Append(acc, r.v))
               ELSE ScanFail

\* json.scanner.scan_once: one value starting at index i.
scan_once(s, i) ==
    IF i > Len(s) THEN ScanFail
    ELSE IF s[i] = "\""
    THEN LET close == {j \in (i + 1)..Len(s) : s[j] = "\""}
         IN IF close = {} THEN ScanFail
            ELSE LET j == CHOOSE k \in close : \A l \in close : k <= l
                     text == SubSeq(s, i + 1, j - 1)
                 IN IF \E k \in 1..Len(text) : text[k] \in {"\n", "\r", "\t"}
                    THEN ScanFail   \* control character in a string (strict)
                    ELSE ScanOk(Str(text), j + 1)
    ELSE IF s[i] = "[" THEN JSONArray(s, i + 1)
    ELSE IF s[i] = "0" THEN ScanOk(PyInt(0), i + 1)
    ELSE IF s[i] \in JsonDigits
    THEN LET e == DigitsEnd(s, i)
         IN ScanOk(PyInt(DigitsValue(SubSeq(s, i, e))), e + 1)
    ELSE ScanFail

\* json.loads(s): the value, or the JSONDecodeError it raises.
json_loads(s) ==
    LET r == scan_once(s, SkipWs(s, 1))
    IN IF ~r.ok THEN JSONDecodeError
       ELSE IF SkipWs(s, r.i) # Len(s) + 1 THEN JSONDecodeError   \* Extra data
       ELSE r.v

(***************************************************************************)
(* Field Encoder: flatten_value                                            *)
(* (src/generate_hl7v2_specification.py:107-160).                          *)
(***************************************************************************)
\* str(x) if x != "" else ""
StrOrEmpty(x) == IF x = Str(<<>>) THEN <<>> ELSE pystr(x)

\* Lines 131-157: a list is joined with '^', a list inside it with '&', and
\* a list inside that with '&' again.
FlattenList(xs) ==
    LET subsub(subitem) == Join([k \in 1..Len(subitem) |-> StrOrEmpty(subitem[k])], <<"&">>)
        sub(item) == Join([j \in 1..Len(item) |->
                               IF IsList(item[j]) THEN subsub(item[j].list)
                               ELSE StrOrEmpty(item[j])], <<"&">>)
        parts == [i \in 1..Len(xs) |->
                      IF IsList(xs[i]) THEN sub(xs[i].list) ELSE StrOrEmpty(xs[i])]
    IN Join(parts, <<"^">>)

\* Lines 118-120: the string looks like a JSON array.
LooksLikeJsonArray(s) == StartsWith(Strip(s), <<"[">>) /\ EndsWith(Strip(s), <<"]">>)

\* Mutant: the JSON parse is not guarded by try/except.
flatten_value_notry(v) ==
    IF IsStr(v)
    THEN IF LooksLikeJsonArray(v.str)
         THEN LET parsed == json_loads(v.str)
              IN IF IsRaise(parsed) THEN parsed ELSE Str(FlattenList(parsed.list))
         ELSE v
    ELSE IF IsList(v) THEN Str(FlattenList(v.list))
    ELSE Str(StrOrEmpty(v))

\* Mutant: the stripped text is what is tested and also what is returned.
flatten_value_stripped(v) ==
    IF IsStr(v)
    THEN IF LooksLikeJsonArray(v.str)
         THEN LET parsed == json_loads(v.str)
              IN IF IsRaise(parsed) THEN Str(Strip(v.str)) ELSE Str(FlattenList(parsed.list))
         ELSE Str(Strip(v.str))
    ELSE IF IsList(v) THEN Str(FlattenList(v.list))
    ELSE Str(StrOrEmpty(v))

flatten_value(v) ==
    IF IsStr(v)
    THEN IF LooksLikeJsonArray(v.str)
         THEN LET parsed == json_loads(v.str)
              IN IF IsRaise(parsed) THEN v      \* except: return value
                 ELSE Str(FlattenList(parsed.list))
         ELSE v
    ELSE IF IsList(v) THEN Str(FlattenList(v.list))
    ELSE Str(StrOrEmpty(v))

\* Lines 171-176: the renderings that are not empty, in order.
RECURSIVE NonEmptyRenderings(_)
NonEmptyRenderings(vs) ==
    IF Len(vs) = 0 THEN <<>>
    ELSE (IF flatten_value(vs[1]).str # <<>> THEN <<flatten_value(vs[1]).str>> ELSE <<>>)
         \o NonEmptyRenderings(Tail(vs))

\* Lines 168-169: a list or tuple as it is, None as no value, anything
\* else as one value.
ValueList(vl) ==
    IF IsList(vl) THEN vl.list
    ELSE IF IsTuple(vl) THEN vl.tuple
    ELSE IF IsNone(vl) THEN <<>>
    ELSE <<vl>>

\* Mutant: the empty renderings are kept.
format_value_list_keepempty(vl) ==
    Str(Join([i \in 1..Len(ValueList(vl)) |-> flatten_value(ValueList(vl)[i]).str], <<",", " ">>))

\* Lines 162-180.
format_value_list(vl) == Str(Join(NonEmptyRenderings(ValueList(vl)), <<",", " ">>))

(***************************************************************************)
(* Message Splitter: split_hl7_messages and getSegments                    *)
(* (src/hl7v2_parser.py:11-12, 72-73, 138-140).                            *)
(***************************************************************************)
HL7_SPLIT_PATTERN == <<"M", "S", "H", "|">>

\* [chunk for chunk in chunks if chunk.strip()]
RECURSIVE NonBlank(_)
NonBlank(chunks) ==
    IF Len(chunks) = 0 THEN <<>>
    ELSE (IF Strip(chunks[1]) # <<>> THEN <<chunks[1]>> ELSE <<>>) \o NonBlank(Tail(chunks))

\* Mutant: the chunks are returned without the header prefix.
split_hl7_messages_noprefix(raw) == NonBlank(Split(Strip(raw), HL7_SPLIT_PATTERN))

split_hl7_messages(raw) ==
    LET kept == NonBlank(Split(Strip(raw), HL7_SPLIT_PATTERN))
    IN [i \in 1..Len(kept) |->
            IF StartsWith(kept[i], <<"M", "S", "H", "|">>) THEN kept[i]
            ELSE <<"M", "S", "H", "|">> \o kept[i]]

\* re.split(r'\r|\n', s): the pieces of s between its line-break characters.
RECURSIVE SplitLines(_)
SplitLines(s) ==
    LET hits == {i \in 1..Len(s) : s[i] \in {"\r", "\n"}}
    IN IF hits = {} THEN <<s>>
       ELSE LET i == CHOOSE k \in hits : \A l \in hits : k <= l
            IN <<SubSeq(s, 1, i - 1)>> \o SplitLines(SubSeq(s, i + 1, Len(s)))

\* Mutant: only the line feed ends a line.
getSegments_lfonly(m) == Split(Strip(m), <<"\n">>)

getSegments(m) == SplitLines(Strip(m))

(***************************************************************************)
(* Python dicts: a sequence of <<key, value>> pairs in insertion order.    *)
(***************************************************************************)
HasKey(d, k) == \E i \in 1..Len(d.dict) : d.dict[i][1] = k

\* d.get(k, default)
Get(d, k, default) ==
    IF HasKey(d, k) THEN d.dict[CHOOSE i \in 1..Len(d.dict) : d.dict[i][1] = k][2]
    ELSE default

\* d[k] = v: in place for a key d holds, appended for a new key.
Put(d, k, v) ==
    IF HasKey(d, k)
    THEN Dict([i \in 1..Len(d.dict) |-> IF d.dict[i][1] = k THEN <<k, v>> ELSE d.dict[i]])
    ELSE Dict(Append(d.dict, <<k, v>>))

(***************************************************************************)
(* Message Assembler: hl7_to_custom_json (src/hl7v2_parser.py:103-135).    *)
(***************************************************************************)
\* Lines 124-127: the entries of the non-empty fields, the first of them at
\* position i.
RECURSIVE FieldEntries(_, _)
FieldEntries(fields, i) ==
    IF Len(fields) = 0 THEN <<>>
    ELSE (IF fields[1] = <<>> THEN <<>>
          ELSE << <<Str(IntToStr(i)), parse_field(fields[1])>> >>)
         \o FieldEntries(Tail(fields), i + 1)

\* Mutant: the header's fields are numbered like any other segment's.
SegData_nooffset(parts) ==
    IF parts[1] = <<"M", "S", "H">>
    THEN IF Len(parts) < 2 THEN Raise("IndexError")
         ELSE Dict(<< <<Str(<<"1">>), Str(<<"|">>)>>, <<Str(<<"2">>), Str(parts[2])>> >>
                   \o FieldEntries(SubSeq(parts, 3, Len(parts)), 1))
    ELSE Dict(FieldEntries(Tail(parts), 1))

\* Mutant: the header line has no special case.
SegData_plain(parts) == Dict(FieldEntries(Tail(parts), 1))

\* Lines 113-127: seg_data of one line's parts, or the IndexError of parts[1].
SegData(parts) ==
    IF parts[1] = <<"M", "S", "H">>
    THEN IF Len(parts) < 2 THEN Raise("IndexError")
         ELSE Dict(<< <<Str(<<"1">>), Str(<<"|">>)>>, <<Str(<<"2">>), Str(parts[2])>> >>
                   \o FieldEntries(SubSeq(parts, 3, Len(parts)), 3))
    ELSE Dict(FieldEntries(Tail(parts), 1))

\* Lines 107-129: the loop over the segment lines; result maps each name to
\* the list of its occurrences.
RECURSIVE AssembleLines(_, _)
AssembleLines(segs, result) ==
    IF Len(segs) = 0 THEN result
    ELSE IF Strip(segs[1]) = <<>> THEN AssembleLines(Tail(segs), result)
    ELSE LET parts == Split(Strip(segs[1]), <<"|">>)
             seg_name == Str(parts[1])
             seg_data == SegData(parts)
         IN IF IsRaise(seg_data) THEN seg_data
            ELSE AssembleLines(Tail(segs),
                     Put(result, seg_name,
                         List(Append(Get(result, seg_name, List(<<>>)).list, seg_data))))

\* Lines 131-133: a one-element list becomes its element.
CollapseSingles(result) ==
    Dict([i \in 1..Len(result.dict) |->
             IF Len(result.dict[i][2].list) = 1
             THEN <<result.dict[i][1], result.dict[i][2].list[1]>>
             ELSE result.dict[i]])

\* Mutant: every name keeps its list of occurrences.
hl7_to_custom_json_nocollapse(text) ==
    AssembleLines(getSegments(text), Dict(<<>>))

hl7_to_custom_json(text) ==
    LET result == AssembleLines(getSegments(text), Dict(<<>>))
    IN IF IsRaise(result) THEN result ELSE CollapseSingles(result)

\* Line 144: the list comprehension over the message texts; the first
\* exception raised by a call leaves the comprehension.
FirstRaise(xs) ==
    IF \E i \in 1..Len(xs) : IsRaise(xs[i])
    THEN xs[CHOOSE i \in 1..Len(xs) : IsRaise(xs[i]) /\ \A j \in 1..(i - 1) : ~IsRaise(xs[j])]
    ELSE List(xs)

AssembleEach(texts) == FirstRaise([i \in 1..Len(texts) |-> hl7_to_custom_json(texts[i])])

parse_multiple_hl7_messages(raw) == AssembleEach(split_hl7_messages(raw))

(***************************************************************************)
(* The projector: serialize_field and convert_to_parquet_tables.           *)
(***************************************************************************)
\* json.dumps with its defaults: ", " and ": " separators, strings quoted
\* with the quote, the backslash and the control characters escaped.
JsonEscape(c) ==
    CASE c = "\"" -> <<"\\", "\"">>
      [] c = "\\" -> <<"\\", "\\">>
      [] c = "\n" -> <<"\\", "n">>
      [] c = "\r" -> <<"\\", "r">>
      [] c = "\t" -> <<"\\", "t">>
      [] OTHER -> <<c>>

RECURSIVE json_dumps(_)
json_dumps(v) ==
    IF IsStr(v)
    THEN <<"\"">> \o Join([i \in 1..Len(v.str) |-> JsonEscape(v.str[i])], <<>>) \o <<"\"">>
    ELSE IF IsList(v)
    THEN <<"[">> \o Join([i \in 1..Len(v.list) |-> json_dumps(v.list[i])], <<",", " ">>) \o <<"]">>
    ELSE IF IsDict(v)
    THEN <<"{">>
         \o Join([i \in 1..Len(v.dict) |->
                     json_dumps(v.dict[i][1]) \o <<":", " ">> \o json_dumps(v.dict[i][2])],
                 <<",", " ">>)
         \o <<"}">>
    ELSE IF IsInt(v) THEN IntToStr(v.int)
    ELSE <<"n", "u", "l", "l">>

\* Mutant: a compound value is written as Python prints it, not as JSON.
serialize_field_repr(val) ==
    IF IsList(val) \/ IsDict(val) THEN Str(pyrepr(val)) ELSE val

\* Lines 147-150.
serialize_field(val) ==
    IF IsList(val) \/ IsDict(val) THEN Str(json_dumps(val)) ELSE val

\* Mutant: the correlation key is always the empty string.
message_id_absent(m) == Str(<<>>)

\* Line 157: msg.get("MSH", {}).get("10", ""); a repeated header is a list,
\* which has no get.
message_id(m) ==
    LET header == Get(m, Str(<<"M", "S", "H">>), Dict(<<>>))
    IN IF IsDict(header) THEN Get(header, Str(<<"1", "0">>), Str(<<>>))
       ELSE Raise("AttributeError")

\* Lines 167-170: the row of one segment occurrence.
RECURSIVE RowCells(_, _, _)
RowCells(row, segment, items) ==
    IF Len(items) = 0 THEN row
    ELSE RowCells(Put(row, Str(segment.str \o <<"-">> \o items[1][1].str),
                      serialize_field(items[1][2])),
                  segment, Tail(items))

Row(segment, entry, mid) ==
    RowCells(Dict(<< <<Str(<<"m", "e", "s", "s", "a", "g", "e", "_", "c", "o", "n", "t", "r", "o", "l", "_", "i", "d">>), mid>> >>),
             segment, entry.dict)

\* Mutant: the rows of a table are kept newest first.
RECURSIVE AppendEntries_prepend(_, _, _, _)
AppendEntries_prepend(tbls, segment, entries, mid) ==
    IF Len(entries) = 0 THEN tbls
    ELSE AppendEntries_prepend(
             Put(tbls, segment,
                 List(<<Row(segment, entries[1], mid)>> \o Get(tbls, segment, List(<<>>)).list)),
             segment, Tail(entries), mid)

\* Lines 166-171: for entry in entries: ... tables[segment].append(row).
RECURSIVE AppendEntries(_, _, _, _)
AppendEntries(tbls, segment, entries, mid) ==
    IF Len(entries) = 0 THEN tbls
    ELSE AppendEntries(
             Put(tbls, segment,
                 List(Append(Get(tbls, segment, List(<<>>)).list, Row(segment, entries[1], mid)))),
             segment, Tail(entries), mid)

\* Mutant: every segment name is projected, in the schema or not.
RECURSIVE ProjectItems_nofilter(_, _, _, _)
ProjectItems_nofilter(tbls, items, sch, mid) ==
    IF Len(items) = 0 THEN tbls
    ELSE LET segment == items[1][1]
             entries == IF IsDict(items[1][2]) THEN <<items[1][2]>> ELSE items[1][2].list
         IN ProjectItems_nofilter(AppendEntries(tbls, segment, entries, mid),
                                  Tail(items), sch, mid)

\* Lines 159-171: for segment, entries in msg.items().
RECURSIVE ProjectItems(_, _, _, _)
ProjectItems(tbls, items, sch, mid) ==
    IF Len(items) = 0 THEN tbls
    ELSE LET segment == items[1][1]
             entries == IF IsDict(items[1][2]) THEN <<items[1][2]>> ELSE items[1][2].list
         IN IF ~HasKey(sch, segment) THEN ProjectItems(tbls, Tail(items), sch, mid)
            ELSE ProjectItems(AppendEntries(tbls, segment, entries, mid),
                              Tail(items), sch, mid)

\* Lines 156-171: for msg in parsed_messages.
RECURSIVE ProjectMessages(_, _, _)
ProjectMessages(tbls, msgs, sch) ==
    IF Len(msgs) = 0 THEN tbls
    ELSE LET mid == message_id(msgs[1])
         IN IF IsRaise(mid) THEN mid
            ELSE ProjectMessages(ProjectItems(tbls, msgs[1].dict, sch, mid), Tail(msgs), sch)

\* Mutant: every row carries the correlation key of the first message.
RECURSIVE ProjectMessages_sharedid(_, _, _, _)
ProjectMessages_sharedid(tbls, msgs, sch, mid) ==
    IF Len(msgs) = 0 THEN tbls
    ELSE IF IsRaise(message_id(msgs[1])) THEN message_id(msgs[1])
    ELSE ProjectMessages_sharedid(ProjectItems(tbls, msgs[1].dict, sch, mid),
                                  Tail(msgs), sch, mid)

convert_to_parquet_tables_sharedid(msgs, sch) ==
    ProjectMessages_sharedid(Dict(<<>>), msgs.list, sch,
                             IF Len(msgs.list) = 0 THEN Str(<<>>) ELSE message_id(msgs.list[1]))

\* Lines 153-173.
convert_to_parquet_tables(msgs, sch) ==
    ProjectMessages(Dict(<<>>), msgs.list, sch)


(***************************************************************************)
(* Inputs.                                                                 *)
(***************************************************************************)
\* Raw field texts: data characters and the three structural separators.
FieldChars == {"a", "b", "~", "^", "&"}
FieldTexts == SeqsUpTo(FieldChars, MaxFieldLen)

\* String arguments of flatten_value: data, JSON punctuation and a blank.
EncoderChars == {"a", "1", "[", "]", ",", "\"", " "}
EncoderTexts == {Str(s) : s \in SeqsUpTo(EncoderChars, MaxStrLen)}

\* Hand-built arguments of flatten_value: scalars of every type, lists of
\* them, lists of lists of strings, each under up to MaxDepth more levels.
Atoms ==
    {Str(<<>>), Str(<<"a">>), PyInt(1), None, Dict(<<>>),
     Dict(<< <<Str(<<"a">>), PyInt(1)>> >>)}
ListsOf(S) == {List(xs) : xs \in SeqsUpTo(S, MaxListLen)}
RECURSIVE Wrapped(_, _)
Wrapped(S, d) == IF d = 0 THEN S ELSE S \cup {List(<<x>>) : x \in Wrapped(S, d - 1)}
HandBuilt ==
    Wrapped(Atoms \cup ListsOf(Atoms) \cup ListsOf(ListsOf({Str(<<>>), Str(<<"a">>)})),
            MaxDepth)
EncoderInputs == EncoderTexts \cup HandBuilt

\* Arguments of format_value_list: None, scalars, and lists and tuples of
\* sample values (empty and plain strings, a JSON cell, a component list,
\* an empty list, None).
SampleValues ==
    {Str(<<>>), Str(<<"a">>), Str(<<"[", "\"", "a", "\"", "]">>),
     List(<<Str(<<"a">>), Str(<<"b">>)>>), List(<<>>), None}
FormatInputs ==
    {None, PyInt(1)} \cup SampleValues
        \cup {List(vs) : vs \in SeqsUpTo(SampleValues, MaxValueListLen)}
        \cup {Tuple(vs) : vs \in SeqsUpTo(SampleValues, MaxValueListLen)}

\* Blobs: a header token "MSH|" starts each message; the body pieces are a
\* data character, a field separator, a line break and a data text that
\* ends in "MSH" (as a field value such as a facility code may).
HeaderToken == <<"M", "S", "H", "|">>
BodyPieces == {<<"a">>, <<"|">>, <<"\n">>, <<"a", "M", "S", "H">>}
PieceSeqs == {ps \in SeqsUpTo({HeaderToken} \cup BodyPieces, MaxPieces) :
                  Len(ps) = 0 \/ ps[1] = HeaderToken}

\* The messages a piece sequence is the concatenation of.
RECURSIVE MessagesOf(_)
MessagesOf(ps) ==
    IF Len(ps) = 0 THEN <<>>
    ELSE LET front == SubSeq(ps, 1, Len(ps) - 1)
             before == MessagesOf(front)
         IN IF ps[Len(ps)] = HeaderToken THEN Append(before, HeaderToken)
            ELSE [before EXCEPT ![Len(before)] = @ \o ps[Len(ps)]]

WhitespaceTexts == SeqsUpTo({" ", "\n", "\r"}, MaxWsLen)

\* Message texts for the assembler: segment names, a bare field separator,
\* a scalar field, a compound field and a line break.
MsgPieces ==
    {<<"M", "S", "H">>, <<"P", "I", "D">>, <<"|">>, <<"|", "a">>, <<"|", "a", "^", "b">>,
     <<"\n">>}
MsgTexts == {Join(ps, <<>>) : ps \in SeqsUpTo(MsgPieces, MaxMsgPieces)}

\* Message texts with both kinds of line break: a segment line, a header
\* line, a line feed and a carriage return.
LinePieces ==
    {<<"P", "I", "D", "|", "a">>, <<"M", "S", "H", "|">>, <<"\n">>, <<"\r">>}
LineTexts == {Join(ps, <<>>) : ps \in SeqsUpTo(LinePieces, MaxLinePieces)}

\* Blobs for the pipeline: a header token, a bare header name, a segment
\* line, a field separator, a line break and a blank.
BlobPieces ==
    {<<"M", "S", "H", "|">>, <<"M", "S", "H">>, <<"P", "I", "D", "|", "a">>, <<"|">>,
     <<"\n">>, <<" ">>}
BlobTexts == {Join(ps, <<>>) : ps \in SeqsUpTo(BlobPieces, MaxBlobPieces)}

\* Batches for the projector: a batch is a sequence of segment lines and
\* message breaks.  The lines are a header without a control id, a header
\* with a scalar and one with a compound control id (position "10"), and a
\* segment with a scalar and one with a compound field.
Break == <<>>
HeaderLines ==
    {<<"M", "S", "H", "|", "^">>,
     <<"M", "S", "H", "|", "^", "|", "|", "|", "|", "|", "|", "|", "|", "a">>,
     <<"M", "S", "H", "|", "^", "|", "|", "|", "|", "|", "|", "|", "|", "a", "^", "b">>}
BatchLines == HeaderLines \cup {<<"P", "I", "D", "|", "a">>, <<"P", "I", "D", "|", "a", "^", "b">>}
Batches == SeqsUpTo(BatchLines \cup {Break}, MaxBatchLen)

\* The message texts of a batch: each line ends with a line break, each
\* break starts the next message; the empty batch has no message.
RECURSIVE TextsFrom(_)
TextsFrom(batch) ==
    IF Len(batch) = 0 THEN << <<>> >>
    ELSE LET before == TextsFrom(SubSeq(batch, 1, Len(batch) - 1))
             last == batch[Len(batch)]
         IN IF last = Break THEN Append(before, <<>>)
            ELSE [before EXCEPT ![Len(before)] = @ \o last \o <<"\n">>]

TextsOf(batch) == IF Len(batch) = 0 THEN <<>> ELSE TextsFrom(batch)

\* A batch that can be read from a blob: every message starts with its
\* only header line.
IsBlob(batch) ==
    /\ \A i \in 1..Len(batch) :
          (batch[i] \in HeaderLines) <=> (i = 1 \/ batch[i - 1] = Break)
    /\ Len(batch) > 0 => batch[Len(batch)] # Break

\* Schemas: a JSON object keyed by segment name.
SchemaOf(names) == Dict([i \in 1..Len(names) |-> <<Str(names[i]), List(<<>>)>>])
Schemas == {SchemaOf(<<<<"P", "I", "D">>>>), SchemaOf(<<<<"M", "S", "H">>, <<"P", "I", "D">>>>)}

Range(xs) == {xs[i] : i \in 1..Len(xs)}

\* A Python list of str from a sequence of texts.
StrList(xs) == List([i \in 1..Len(xs) |-> Str(xs[i])])

(***************************************************************************)
(* Field decoding and re-encoding: parse_field, then flatten_value on its  *)
(* result.  Every variable holds a Python value, NoValue while unset.      *)
(***************************************************************************)
Init ==
    /\ pc = "start"
    /\ field \in {Str(t) : t \in FieldTexts}
    /\ decoded = NoValue
    /\ value = NoValue
    /\ encoded = NoValue
    /\ source_msgs = NoValue
    /\ raw_data = NoValue
    /\ messages = NoValue
    /\ msg = NoValue
    /\ segments = NoValue
    /\ HL7Message = NoValue
    /\ assembled = NoValue
    /\ parsed_messages = NoValue
    /\ schema = NoValue
    /\ tables = NoValue
    /\ ExtUnset

Decode ==
    /\ pc = "start"
    /\ field # NoValue
    /\ decoded' = parse_field(field.str)
    /\ pc' = "parse_field"
    /\ UNCHANGED <<extVars, field, value, encoded, source_msgs, raw_data, messages, msg, segments, asmVars, projVars>>

EncodeDecoded ==
    /\ pc = "parse_field"
    /\ ~IsRaise(decoded)
    /\ value' = decoded
    /\ encoded' = flatten_value(decoded)
    /\ pc' = "flatten_value"
    /\ UNCHANGED <<extVars, field, decoded, source_msgs, raw_data, messages, msg, segments, asmVars, projVars>>

\* The decoded value is stored as a cell (src/hl7v2_parser.py:170) ...
SerializeDecoded ==
    /\ pc = "parse_field"
    /\ ~IsRaise(decoded)
    /\ value' = serialize_field(decoded)
    /\ pc' = "serialize_field"
    /\ UNCHANGED <<extVars, field, decoded, encoded, source_msgs, raw_data, messages, msg, segments, asmVars, projVars>>

\* ... and the cell is rendered (src/generate_hl7v2_specification.py:174).
FlattenCell ==
    /\ pc = "serialize_field"
    /\ encoded' = flatten_value(value)
    /\ pc' = "flatten_cell"
    /\ UNCHANGED <<extVars, field, decoded, value, source_msgs, raw_data, messages, msg, segments, asmVars, projVars>>

Next == Decode \/ EncodeDecoded \/ SerializeDecoded \/ FlattenCell

Spec == Init /\ [][Next]_vars

(***************************************************************************)
(* The encoder on arbitrary arguments.                                     *)
(***************************************************************************)
InitEncoder ==
    /\ pc = "start"
    /\ field = NoValue
    /\ decoded = NoValue
    /\ value \in EncoderInputs
    /\ encoded = NoValue
    /\ source_msgs = NoValue
    /\ raw_data = NoValue
    /\ messages = NoValue
    /\ msg = NoValue
    /\ segments = NoValue
    /\ HL7Message = NoValue
    /\ assembled = NoValue
    /\ parsed_messages = NoValue
    /\ schema = NoValue
    /\ tables = NoValue
    /\ ExtUnset

Flatten ==
    /\ pc = "start"
    /\ value # NoValue
    /\ encoded' = flatten_value(value)
    /\ pc' = "flatten_value"
    /\ UNCHANGED <<extVars, field, decoded, value, source_msgs, raw_data, messages, msg, segments, asmVars, projVars>>

NextEncoder == Flatten

SpecEncoder == InitEncoder /\ [][NextEncoder]_vars

(***************************************************************************)
(* The display rendering: format_value_list on a list of sample values.    *)
(***************************************************************************)
InitFormat ==
    /\ pc = "start"
    /\ field = NoValue
    /\ decoded = NoValue
    /\ value = NoValue
    /\ encoded = NoValue
    /\ source_msgs = NoValue
    /\ raw_data = NoValue
    /\ messages = NoValue
    /\ msg = NoValue
    /\ segments = NoValue
    /\ HL7Message = NoValue
    /\ assembled = NoValue
    /\ parsed_messages = NoValue
    /\ schema = NoValue
    /\ tables = NoValue
    /\ value_list \in FormatInputs
    /\ formatted = NoValue
    /\ RetryUnset
    /\ HandlerUnset

FormatValueList ==
    /\ pc = "start"
    /\ value_list # NoValue
    /\ formatted' = format_value_list(value_list)
    /\ pc' = "format_value_list"
    /\ UNCHANGED <<coreVars, retryVars, handlerVars, value_list>>

NextFormat == FormatValueList

SpecFormat == InitFormat /\ [][NextFormat]_vars

(***************************************************************************)
(* The splitter: split_hl7_messages on a blob, getSegments on the blob or  *)
(* on one of the messages split from it.                                   *)
(***************************************************************************)
InitSplit ==
    /\ pc = "start"
    /\ field = NoValue
    /\ decoded = NoValue
    /\ value = NoValue
    /\ encoded = NoValue
    /\ \/ \E ps \in PieceSeqs :
             /\ source_msgs = StrList(MessagesOf(ps))
             /\ raw_data = Str(Join(ps, <<>>))
       \/ /\ source_msgs = StrList(<<>>)
          /\ raw_data \in {Str(t) : t \in WhitespaceTexts}
    /\ messages = NoValue
    /\ msg = NoValue
    /\ segments = NoValue
    /\ HL7Message = NoValue
    /\ assembled = NoValue
    /\ parsed_messages = NoValue
    /\ schema = NoValue
    /\ tables = NoValue
    /\ ExtUnset

SplitMessages ==
    /\ pc = "start"
    /\ messages' = StrList(split_hl7_messages(raw_data.str))
    /\ pc' = "split_hl7_messages"
    /\ UNCHANGED <<extVars, field, decoded, value, encoded, source_msgs, raw_data, msg, segments, asmVars, projVars>>

GetSegments ==
    /\ pc \in {"start", "split_hl7_messages"}
    /\ \E m \in (IF messages = NoValue THEN {raw_data} ELSE Range(messages.list)) :
          /\ msg' = m
          /\ segments' = StrList(getSegments(m.str))
    /\ pc' = "getSegments"
    /\ UNCHANGED <<extVars, field, decoded, value, encoded, source_msgs, raw_data, messages, asmVars, projVars>>

NextSplit == SplitMessages \/ GetSegments

SpecSplit == InitSplit /\ [][NextSplit]_vars

(***************************************************************************)
(* The assembler: hl7_to_custom_json on one message text.                  *)
(***************************************************************************)
InitAssemble ==
    /\ pc = "start"
    /\ field = NoValue
    /\ decoded = NoValue
    /\ value = NoValue
    /\ encoded = NoValue
    /\ source_msgs = NoValue
    /\ raw_data = NoValue
    /\ messages = NoValue
    /\ msg = NoValue
    /\ segments = NoValue
    /\ HL7Message \in {Str(t) : t \in MsgTexts \cup LineTexts}
    /\ assembled = NoValue
    /\ parsed_messages = NoValue
    /\ schema = NoValue
    /\ tables = NoValue
    /\ ExtUnset

Assemble ==
    /\ pc = "start"
    /\ HL7Message # NoValue
    /\ assembled' = hl7_to_custom_json(HL7Message.str)
    /\ pc' = "hl7_to_custom_json"
    /\ UNCHANGED <<extVars, field, decoded, value, encoded, source_msgs, raw_data, messages, msg,
                   segments, HL7Message, projVars>>

NextAssemble == Assemble

SpecAssemble == InitAssemble /\ [][NextAssemble]_vars

(***************************************************************************)
(* The projector: a batch of message texts is assembled, read from a blob  *)
(* by parse_multiple_hl7_messages or text by text, and then projected by   *)
(* convert_to_parquet_tables under a schema.                               *)
(***************************************************************************)
InitProject ==
    /\ pc = "start"
    /\ field = NoValue
    /\ decoded = NoValue
    /\ value = NoValue
    /\ encoded = NoValue
    /\ \E batch \in Batches :
          /\ source_msgs = StrList(TextsOf(batch))
          /\ raw_data = IF IsBlob(batch) THEN Str(Join(TextsOf(batch), <<>>)) ELSE NoValue
    /\ messages = NoValue
    /\ msg = NoValue
    /\ segments = NoValue
    /\ HL7Message = NoValue
    /\ assembled = NoValue
    /\ parsed_messages = NoValue
    /\ schema \in Schemas
    /\ tables = NoValue
    /\ ExtUnset

\* Lines 142-144 on the blob.
ParseMultiple ==
    /\ pc = "start"
    /\ raw_data # NoValue
    /\ messages' = StrList(split_hl7_messages(raw_data.str))
    /\ parsed_messages' = parse_multiple_hl7_messages(raw_data.str)
    /\ pc' = "parse_multiple_hl7_messages"
    /\ UNCHANGED <<extVars, field, decoded, value, encoded, source_msgs, raw_data, msg, segments,
                   asmVars, schema, tables>>

\* Line 144 on message texts that were not read from a blob.
ParseEach ==
    /\ pc = "start"
    /\ parsed_messages' = AssembleEach([i \in 1..Len(source_msgs.list) |-> source_msgs.list[i].str])
    /\ pc' = "hl7_to_custom_json"
    /\ UNCHANGED <<extVars, field, decoded, value, encoded, source_msgs, raw_data, messages, msg,
                   segments, asmVars, schema, tables>>

\* Mutant: the projector wraps each bare Segment in place, as by
\* msg[segment] = [entries].
Project_wrapping ==
    /\ pc \in {"parse_multiple_hl7_messages", "hl7_to_custom_json"}
    /\ IsList(parsed_messages)
    /\ tables' = convert_to_parquet_tables(parsed_messages, schema)
    /\ parsed_messages' =
           List([k \in 1..Len(parsed_messages.list) |->
                    Dict([i \in 1..Len(parsed_messages.list[k].dict) |->
                             LET item == parsed_messages.list[k].dict[i]
                             IN IF IsDict(item[2]) /\ HasKey(schema, item[1])
                                THEN <<item[1], List(<<item[2]>>)>>
                                ELSE item])])
    /\ pc' = "convert_to_parquet_tables"
    /\ UNCHANGED <<extVars, field, decoded, value, encoded, source_msgs, raw_data, messages, msg,
                   segments, asmVars, schema>>

\* Lines 153-173.
Project ==
    /\ pc \in {"parse_multiple_hl7_messages", "hl7_to_custom_json"}
    /\ IsList(parsed_messages)
    /\ tables' = convert_to_parquet_tables(parsed_messages, schema)
    /\ pc' = "convert_to_parquet_tables"
    /\ UNCHANGED <<extVars, field, decoded, value, encoded, source_msgs, raw_data, messages, msg,
                   segments, asmVars, parsed_messages, schema>>

NextProject == ParseMultiple \/ ParseEach \/ Project

SpecProject == InitProject /\ [][NextProject]_vars

(***************************************************************************)
(* The pipeline: any blob is read by parse_multiple_hl7_messages and its   *)
(* result, when there is one, is projected by convert_to_parquet_tables.   *)
(***************************************************************************)
InitPipeline ==
    /\ pc = "start"
    /\ field = NoValue
    /\ decoded = NoValue
    /\ value = NoValue
    /\ encoded = NoValue
    /\ source_msgs = NoValue
    /\ raw_data \in {Str(t) : t \in BlobTexts}
    /\ messages = NoValue
    /\ msg = NoValue
    /\ segments = NoValue
    /\ HL7Message = NoValue
    /\ assembled = NoValue
    /\ parsed_messages = NoValue
    /\ schema \in Schemas
    /\ tables = NoValue
    /\ ExtUnset

NextPipeline == ParseMultiple \/ Project

SpecPipeline == InitPipeline /\ [][NextPipeline]_vars

(***************************************************************************)
(* invoke_with_backoff (src/generate_mirth_js_code.py:178-190 and          *)
(* src/evaluate_transformation_rules.py:8-20): the model is called until   *)
(* it answers, fails with an error other than throttling, or the attempts  *)
(* are used up.  Each call of bedrock.invoke_model answers, is throttled   *)
(* or fails, as the service decides.                                       *)
(***************************************************************************)
\* The default limits of the two copies of the function.
max_retries_generate == 8
max_retries_evaluate == 5

ThrottlingException == Raise("ThrottlingException")
MaxRetriesExceeded == Raise("Max retries exceeded due to throttling.")
Responses == {[response |-> "r1"], [response |-> "r2"]}
OtherErrors == {Raise("ValidationException"), Raise("AccessDeniedException")}
RetryLimits == (0..MaxRetries) \cup {max_retries_generate, max_retries_evaluate}

\* 2 ** attempt
RECURSIVE Pow2(_)
Pow2(n) == IF n = 0 THEN 1 ELSE 2 * Pow2(n - 1)

InitRetry ==
    /\ pc = "for"
    /\ CoreUnset
    /\ FormatUnset
    /\ max_retries \in {PyInt(n) : n \in RetryLimits}
    /\ attempt = PyInt(0)
    /\ wait = NoValue
    /\ invocations = List(<<>>)
    /\ response = NoValue
    /\ HandlerUnset

\* Lines 181-182: the call answers and the answer is returned.
InvokeReturns ==
    /\ pc = "for"
    /\ attempt.int < max_retries.int
    /\ \E r \in Responses :
          /\ invocations' = List(Append(invocations.list, r))
          /\ response' = r
    /\ pc' = "return"
    /\ UNCHANGED <<coreVars, fmtVars, handlerVars, max_retries, attempt, wait>>

\* Lines 183-185: the call is throttled; the wait is 2 ** attempt seconds
\* plus a random fraction of less than two seconds.
InvokeThrottled ==
    /\ pc = "for"
    /\ attempt.int < max_retries.int
    /\ invocations' = List(Append(invocations.list, ThrottlingException))
    /\ wait' = PyInt(Pow2(attempt.int))
    /\ pc' = "sleep"
    /\ UNCHANGED <<coreVars, fmtVars, handlerVars, max_retries, attempt, response>>

\* Line 186 and the next turn of the loop of line 179.
Sleep ==
    /\ pc = "sleep"
    /\ attempt' = PyInt(attempt.int + 1)
    /\ pc' = "for"
    /\ UNCHANGED <<coreVars, fmtVars, handlerVars, max_retries, wait, invocations, response>>

\* Mutant: an error other than throttling is retried like throttling.
InvokeFails_retrying ==
    /\ pc = "for"
    /\ attempt.int < max_retries.int
    /\ \E err \in OtherErrors : invocations' = List(Append(invocations.list, err))
    /\ wait' = PyInt(Pow2(attempt.int))
    /\ pc' = "sleep"
    /\ UNCHANGED <<coreVars, fmtVars, handlerVars, max_retries, attempt, response>>

\* Lines 187-189: the call fails with another error, which is raised again.
InvokeFails ==
    /\ pc = "for"
    /\ attempt.int < max_retries.int
    /\ \E err \in OtherErrors :
          /\ invocations' = List(Append(invocations.list, err))
          /\ response' = err
    /\ pc' = "raise"
    /\ UNCHANGED <<coreVars, fmtVars, handlerVars, max_retries, attempt, wait>>

\* Line 190: the loop has run max_retries times.
Exhausted ==
    /\ pc = "for"
    /\ attempt.int >= max_retries.int
    /\ response' = MaxRetriesExceeded
    /\ pc' = "raise"
    /\ UNCHANGED <<coreVars, fmtVars, handlerVars, max_retries, attempt, wait, invocations>>

NextRetry == InvokeReturns \/ InvokeThrottled \/ Sleep \/ InvokeFails \/ Exhausted

SpecRetry == InitRetry /\ [][NextRetry]_vars

\* Every call of bedrock.invoke_model and every time.sleep comes back, and
\* the interpreter goes on to the next statement.
SpecRetryFair == SpecRetry /\ WF_vars(NextRetry)

(***************************************************************************)
(* lambda_handler (src/hl7v2_parser.py:201-294): the message text is read  *)
(* from the event, uploaded, the output folder is cleared, the text is     *)
(* read back, parsed, projected, each table is stored and the workflow is  *)
(* started.  Each call of S3 and of Step Functions succeeds or fails, as   *)
(* the service decides; every exception inside the handler ends it with    *)
(* status 500 (lines 285-294).                                             *)
(***************************************************************************)
KeyBody == Str(<<"b", "o", "d", "y">>)
KeyMessage == Str(<<"h", "l", "7", "_", "m", "e", "s", "s", "a", "g", "e">>)

\* Values of 'hl7_message': none, an empty text, a number, a blank text, one
\* message, two messages, and a message with a header line that has no
\* field separator.
HandlerMessages ==
    {None, Str(<<>>), PyInt(5), Str(<<" ">>), Str(<<"M", "S", "H", "|", "^", "\n", "P", "I", "D", "|", "a">>),
     Str(<<"P", "I", "D", "|", "a", "\n", "M", "S", "H", "|", "^", "\n", "P", "I", "D", "|", "a">>), Str(<<"M", "S", "H", "|", "^", "\n", "M", "S", "H">>)}
Payloads == {Dict(<<>>)} \cup {Dict(<< <<KeyMessage, v>> >>) : v \in HandlerMessages}

\* Request bodies sent as text: broken JSON, a JSON array, an empty object
\* and an object with a message.
BodyTexts == {<<"{">>, <<"[", "]">>, <<"{", "}">>, <<"{", "\"", "h", "l", "7", "_", "m", "e", "s", "s", "a", "g", "e", "\"", ":", " ", "\"", "M", "S", "H", "|", "^", "\"", "}">>}

\* json.loads on the body texts.
json_loads_body(text) ==
    CASE text = <<"{">> -> JSONDecodeError
      [] text = <<"[", "]">> -> List(<<>>)
      [] text = <<"{", "}">> -> Dict(<<>>)
      [] text = <<"{", "\"", "h", "l", "7", "_", "m", "e", "s", "s", "a", "g", "e", "\"", ":", " ", "\"", "M", "S", "H", "|", "^", "\"", "}">> -> Dict(<< <<KeyMessage, Str(<<"M", "S", "H", "|", "^">>)>> >>)

Events ==
    Payloads
        \cup {Dict(<< <<KeyBody, b>> >>) : b \in Payloads \cup {None}}
        \cup {Dict(<< <<KeyBody, Str(t)>> >>) : t \in BodyTexts}

\* Lines 207-215: the message text of the event, or the ValueError raised
\* for a body that cannot be read.
hl7_raw_of(ev) ==
    IF HasKey(ev, KeyBody)
    THEN LET b == Get(ev, KeyBody, None)
             body == IF IsStr(b) THEN json_loads_body(b.str) ELSE b
         IN IF IsDict(body) THEN Get(body, KeyMessage, None) ELSE Raise("ValueError")
    ELSE Get(ev, KeyMessage, None)

\* not hl7_raw
Falsy(v) == v = None \/ v = Str(<<>>) \/ v = PyInt(0)

Effect(call, target, ok) == [call |-> call, target |-> target, ok |-> ok]

\* The targets of the calls: the key prefixes of lines 222, 236 and 185 and
\* the name of the state machine of line 253.
InputKey == Str(<<"i", "n", "p", "u", "t", "/", "r", "a", "w", "_", "h", "l", "7", "_", "m", "e", "s", "s", "a", "g", "e", "s", "/">>)
OutputPrefix == Str(<<"o", "u", "t", "p", "u", "t", "/", "p", "a", "r", "s", "e", "d", "_", "h", "l", "7", "_", "s", "e", "g", "m", "e", "n", "t", "s", "/">>)
SegmentKey(segment) == Str(<<"o", "u", "t", "p", "u", "t", "/", "p", "a", "r", "s", "e", "d", "_", "h", "l", "7", "_", "s", "e", "g", "m", "e", "n", "t", "s", "/", "s", "e", "g", "m", "e", "n", "t", "=">> \o segment.str)
StateMachine == Str(<<"H", "L", "7", "v", "2", "A", "u", "t", "o", "C", "T">>)

InitHandler ==
    /\ pc = "start"
    /\ field = NoValue
    /\ decoded = NoValue
    /\ value = NoValue
    /\ encoded = NoValue
    /\ source_msgs = NoValue
    /\ raw_data = NoValue
    /\ messages = NoValue
    /\ msg = NoValue
    /\ segments = NoValue
    /\ HL7Message = NoValue
    /\ assembled = NoValue
    /\ parsed_messages = NoValue
    /\ schema \in Schemas
    /\ tables = NoValue
    /\ FormatUnset
    /\ RetryUnset
    /\ event \in Events
    /\ hl7_raw = NoValue
    /\ effects = List(<<>>)
    /\ output_keys = NoValue
    /\ statusCode = NoValue

\* Lines 285-294: the handler returns the error response.
Return500 ==
    /\ statusCode' = PyInt(500)
    /\ pc' = "return"

\* Lines 207-218.
ReadEvent ==
    /\ pc = "start"
    /\ hl7_raw' = hl7_raw_of(event)
    /\ IF IsRaise(hl7_raw') \/ Falsy(hl7_raw')
       THEN Return500
       ELSE pc' = "put_object" /\ UNCHANGED statusCode
    /\ UNCHANGED <<coreVars, fmtVars, retryVars, event, effects, output_keys>>

\* Lines 225-231: the raw upload; a text is needed for encode.
UploadRaw ==
    /\ pc = "put_object"
    /\ IF ~IsStr(hl7_raw)
       THEN Return500 /\ UNCHANGED effects
       ELSE \E ok \in BOOLEAN :
               /\ effects' = List(Append(effects.list, Effect("put_object", InputKey, ok)))
               /\ IF ok THEN pc' = "clear_s3_folder" /\ UNCHANGED statusCode ELSE Return500
    /\ UNCHANGED <<coreVars, fmtVars, retryVars, event, hl7_raw, output_keys>>

\* Mutant: a failure of the cleanup ends the handler.
Cleanup_aborting ==
    /\ pc = "clear_s3_folder"
    /\ \E ok \in BOOLEAN :
          /\ effects' = List(Append(effects.list, Effect("clear_s3_folder", OutputPrefix, ok)))
          /\ IF ok THEN pc' = "get_object" /\ UNCHANGED statusCode ELSE Return500
    /\ UNCHANGED <<coreVars, fmtVars, retryVars, event, hl7_raw, output_keys>>

\* Lines 234-240 and 25-70: the cleanup; its failure is only printed.
Cleanup ==
    /\ pc = "clear_s3_folder"
    /\ \E ok \in BOOLEAN :
          effects' = List(Append(effects.list, Effect("clear_s3_folder", OutputPrefix, ok)))
    /\ pc' = "get_object"
    /\ UNCHANGED <<coreVars, fmtVars, retryVars, event, hl7_raw, output_keys, statusCode>>

\* Lines 243-244: the uploaded text is read back.
ReadBack ==
    /\ pc = "get_object"
    /\ \E ok \in BOOLEAN :
          /\ effects' = List(Append(effects.list, Effect("get_object", InputKey, ok)))
          /\ IF ok THEN pc' = "parse_multiple_hl7_messages" /\ UNCHANGED statusCode
             ELSE Return500
    /\ UNCHANGED <<coreVars, fmtVars, retryVars, event, hl7_raw, output_keys>>

\* Lines 246-247, and line 178 when both have returned.
ParseAndConvert ==
    /\ pc = "parse_multiple_hl7_messages"
    /\ parsed_messages' = parse_multiple_hl7_messages(hl7_raw.str)
    /\ tables' = IF IsRaise(parsed_messages') THEN NoValue
                 ELSE convert_to_parquet_tables(parsed_messages', schema)
    /\ IF IsRaise(parsed_messages') \/ IsRaise(tables')
       THEN Return500 /\ UNCHANGED output_keys
       ELSE pc' = "store_parquet_to_s3" /\ output_keys' = List(<<>>) /\ UNCHANGED statusCode
    /\ UNCHANGED <<field, decoded, value, encoded, source_msgs, raw_data, messages, msg,
                   segments, asmVars, schema, fmtVars, retryVars, event, hl7_raw, effects>>

\* Lines 179-195: the next table is written and put into the bucket.
StoreTable ==
    /\ pc = "store_parquet_to_s3"
    /\ Len(output_keys.list) < Len(tables.dict)
    /\ LET segment == tables.dict[Len(output_keys.list) + 1][1]
       IN \E ok \in BOOLEAN :
             /\ effects' = List(Append(effects.list, Effect("put_object", SegmentKey(segment), ok)))
             /\ IF ok
                THEN /\ output_keys' = List(Append(output_keys.list, segment))
                     /\ UNCHANGED <<pc, statusCode>>
                ELSE Return500 /\ UNCHANGED output_keys
    /\ UNCHANGED <<coreVars, fmtVars, retryVars, event, hl7_raw>>

\* Lines 197 and 250-283: every table is stored; the workflow is started and
\* the handler returns the success response.
StartExecution ==
    /\ pc = "store_parquet_to_s3"
    /\ Len(output_keys.list) = Len(tables.dict)
    /\ \E ok \in BOOLEAN :
          /\ effects' = List(Append(effects.list, Effect("start_execution", StateMachine, ok)))
          /\ IF ok THEN statusCode' = PyInt(200) /\ pc' = "return" ELSE Return500
    /\ UNCHANGED <<coreVars, fmtVars, retryVars, event, hl7_raw, output_keys>>

NextHandler ==
    ReadEvent \/ UploadRaw \/ Cleanup \/ ReadBack \/ ParseAndConvert \/ StoreTable
        \/ StartExecution

SpecHandler == InitHandler /\ [][NextHandler]_vars

(***************************************************************************)
(* Reference definitions used to state the properties: the pieces of a     *)
(* text between occurrences of one separator character, by position.       *)
(***************************************************************************)
NumPieces(s, c) == Cardinality({i \in 1..Len(s) : s[i] = c}) + 1

\* The k-th piece: the characters preceded by exactly k - 1 separators.
PieceOf(s, c, k) ==
    LET idx == {i \in 1..Len(s) :
                    s[i] # c /\ Cardinality({j \in 1..(i - 1) : s[j] = c}) = k - 1}
    IN IF idx = {} THEN <<>>
       ELSE SubSeq(s, CHOOSE i \in idx : \A j \in idx : i <= j,
                      CHOOSE i \in idx : \A j \in idx : i >= j)

PiecesOf(s, c) == [k \in 1..NumPieces(s, c) |-> PieceOf(s, c, k)]

\* A component as the data model has it: a sub-component list when the
\* piece holds '&', else a scalar.
ComponentValue(comp) ==
    IF Contains(comp, "&") THEN StrList(PiecesOf(comp, "&")) ELSE Str(comp)

HasNoSeparator(s) == ~Contains(s, "~") /\ ~Contains(s, "^") /\ ~Contains(s, "&")

\* Scalar, ComponentList or RepetitionList.
IsComponentValue(v) == IsStr(v) \/ (IsList(v) /\ \A i \in 1..Len(v.list) : IsStr(v.list[i]))
IsComponentGroup(v) ==
    IsStr(v) \/ (IsList(v) /\ \A i \in 1..Len(v.list) : IsComponentValue(v.list[i]))
IsHierarchicalValue(v) ==
    IsComponentGroup(v) \/ (IsList(v) /\ \A i \in 1..Len(v.list) : IsComponentGroup(v.list[i]))

(***************************************************************************)
(* Properties of the field decoder and encoder (specification Spec).       *)
(***************************************************************************)

\* C1: round trip -- for every raw field text t built from separator-free
\* pieces joined by '~', '^' and '&', flatten_value(parse_field(t)) = t.
\* (Every text over FieldChars is such a text.)
C1_RoundTrip ==
    pc = "flatten_value" => encoded = field

\* C2: a field text of k >= 2 separator-free pieces joined only by '&'
\* decodes to the list of those k scalars in order, and encoding that value
\* rejoins them with '&', reproducing the field text.
C2_SubcomponentRoundTrip ==
    (Contains(field.str, "&") /\ ~Contains(field.str, "^") /\ ~Contains(field.str, "~"))
        => /\ pc # "start" => decoded = StrList(PiecesOf(field.str, "&"))
           /\ pc = "flatten_value" => encoded = Str(Join(PiecesOf(field.str, "&"), <<"&">>))

\* C3: a field text with n >= 2 chunks separated by '~' decodes to a list of
\* exactly n elements in chunk order; a chunk with k >= 2 '^'-separated
\* components yields a k-element component list whose components holding
\* '&' are sub-component lists.  (For a chunk of one component the element
\* carries that component, bare or as a one-element list.)
C3_RepetitionShape ==
    (pc # "start" /\ Contains(field.str, "~"))
        => /\ IsList(decoded)
           /\ Len(decoded.list) = NumPieces(field.str, "~")
           /\ \A i \in 1..NumPieces(field.str, "~") :
                 LET chunk == PieceOf(field.str, "~", i)
                     k == NumPieces(chunk, "^")
                     comps == [j \in 1..k |-> ComponentValue(PieceOf(chunk, "^", j))]
                 IN IF k >= 2 THEN decoded.list[i] = List(comps)
                    ELSE decoded.list[i] \in {comps[1], List(comps)}

C3_Witness ==
    /\ pc = "parse_field"
    /\ field = Str(<<"a", "^", "b", "~", "b">>)
    /\ decoded = List(<<List(<<Str(<<"a">>), Str(<<"b">>)>>), List(<<Str(<<"b">>)>>)>>)

\* C4: a field text holding none of '~', '^', '&' decodes to the bare scalar
\* holding exactly that text, never to a list; the empty text to Scalar("").
C4_Collapse ==
    (pc # "start" /\ HasNoSeparator(field.str)) => decoded = field

C4_Witness ==
    pc = "parse_field" /\ field = Str(<<>>) /\ decoded = Str(<<>>)

\* C5: parse_field is total and side-effect free -- for every input it
\* returns a HierarchicalValue and never raises, and the step that runs it
\* changes nothing but its result (and the caller's position).
C5_DecodeTotal ==
    /\ [](pc # "start" => (~IsRaise(decoded) /\ IsHierarchicalValue(decoded)))
    /\ [][pc = "start" =>
            UNCHANGED <<extVars, field, value, encoded, source_msgs, raw_data, messages, msg, segments, asmVars, projVars>>]_vars

C5_Witness ==
    pc = "parse_field" /\ field = Str(<<"~", "^", "&">>) /\ IsHierarchicalValue(decoded)

\* C6: encoding a RepetitionList returns the encodings of its elements
\* joined by the repetition separator '~'.
C6_EncodeRepetitions ==
    (pc = "flatten_value" /\ Contains(field.str, "~"))
        => encoded = Str(Join([i \in 1..Len(decoded.list) |->
                                   flatten_value(decoded.list[i]).str], <<"~">>))

(***************************************************************************)
(* Properties of the encoder on arbitrary arguments (SpecEncoder).         *)
(***************************************************************************)

\* C7 as claimed: for every string s, flatten_value(s) returns s unchanged,
\* strings that begin with '[' and end with ']' included.
C7_ScalarUnchanged ==
    (pc = "flatten_value" /\ IsStr(value)) => encoded = value

\* C7 as amended: for every string s, flatten_value(s) returns s unchanged
\* unless s, stripped of surrounding whitespace, begins with '[' and ends
\* with ']' and parses as JSON (then the parsed array is encoded instead).
C7_ScalarUnchangedUnlessJson ==
    (pc = "flatten_value" /\ IsStr(value)
        /\ ~(LooksLikeJsonArray(value.str) /\ ~IsRaise(json_loads(value.str))))
        => encoded = value

C7_Witness ==
    pc = "flatten_value" /\ value = Str(<<" ", "[", "a", "]">>) /\ encoded = value

\* C8: the encoder never fails -- for every argument (string, number, None,
\* mapping, list nested to any depth) flatten_value returns a string and
\* does not raise; an argument it cannot interpret structurally (a number,
\* None, a mapping, a bracketed string that is not JSON) comes back
\* stringified verbatim.
C8_EncoderNeverFails ==
    pc = "flatten_value"
        => /\ IsStr(encoded)
           /\ (IsInt(value) \/ IsNone(value) \/ IsDict(value)) => encoded = Str(pyrepr(value))
           /\ (IsStr(value) /\ IsRaise(json_loads(value.str))) => encoded = value

C8_Witness ==
    /\ pc = "flatten_value"
    /\ value = Dict(<< <<Str(<<"a">>), PyInt(1)>> >>)
    /\ encoded = Str(<<"{", "'", "a", "'", ":", " ", "1", "}">>)

(***************************************************************************)
(* Properties of the splitter (SpecSplit).                                 *)
(***************************************************************************)

\* C9: for a blob that is the concatenation of n messages each beginning
\* with "MSH|", split_hl7_messages returns exactly n texts in blob order,
\* each beginning with "MSH|" and carrying the content of the corresponding
\* message (compared up to surrounding whitespace).  Stated for the blobs
\* whose messages all carry a non-blank body after the header token.
C9_SplitMessages ==
    (/\ messages # NoValue
     /\ \A i \in 1..Len(source_msgs.list) :
           Strip(SubSeq(source_msgs.list[i].str, Len(HeaderToken) + 1,
                        Len(source_msgs.list[i].str))) # <<>>)
        => /\ Len(messages.list) = Len(source_msgs.list)
           /\ \A i \in 1..Len(messages.list) :
                 /\ StartsWith(messages.list[i].str, HeaderToken)
                 /\ i <= Len(source_msgs.list)
                 /\ Strip(messages.list[i].str) = Strip(source_msgs.list[i].str)

\* C10: for an empty or whitespace-only input, split_hl7_messages and
\* getSegments both return an empty sequence (and neither raises).
C10_EmptyInput ==
    /\ (messages # NoValue /\ Strip(raw_data.str) = <<>>) => messages = List(<<>>)
    /\ (pc = "getSegments" /\ Strip(msg.str) = <<>>) => segments = List(<<>>)

(***************************************************************************)
(* Reference definitions for the assembler: the segment lines of a message *)
(* text and their tokens, by position.                                     *)
(***************************************************************************)
\* The elements of xs that satisfy keep, in order.
KeepIndices(n, keep(_)) ==
    LET idx == {i \in 1..n : keep(i)}
    IN [k \in 1..Cardinality(idx) |->
            CHOOSE i \in idx : Cardinality({j \in idx : j <= i}) = k]

\* The pieces of a text between its line-break characters (CR and LF).
LinesOfText(s) ==
    LET brk == {i \in 1..Len(s) : s[i] \in {"\r", "\n"}}
        n == Cardinality(brk) + 1
        nth(k) == CHOOSE i \in brk : Cardinality({j \in brk : j <= i}) = k
    IN [k \in 1..n |->
            SubSeq(s, IF k = 1 THEN 1 ELSE nth(k - 1) + 1, IF k = n THEN Len(s) ELSE nth(k) - 1)]

\* The non-blank lines of a message text, each stripped.
SegmentLines(text) ==
    LET lines == LinesOfText(Strip(text))
        nonblank(i) == Strip(lines[i]) # <<>>
        at == KeepIndices(Len(lines), nonblank)
    IN [k \in 1..Len(at) |-> Strip(lines[at[k]])]

\* The tokens of a line: the name, then the fields.
Tokens(line) == PiecesOf(line, "|")

\* The lines of a message text whose name is n, in order.
LinesNamed(text, n) ==
    LET lines == SegmentLines(text)
        named(i) == Tokens(lines[i])[1] = n
        at == KeepIndices(Len(lines), named)
    IN [k \in 1..Len(at) |-> lines[at[k]]]

SegmentNames(text) == {Tokens(SegmentLines(text)[i])[1] : i \in 1..Len(SegmentLines(text))}

\* The occurrences a Message holds under a name, whatever their shape.
Occurrences(message, n) ==
    LET v == Get(message, Str(n), List(<<>>))
    IN IF IsList(v) THEN v.list ELSE <<v>>

MSH == <<"M", "S", "H">>

(***************************************************************************)
(* Properties of the assembler (SpecAssemble).                             *)
(***************************************************************************)

\* C11: field position numbering -- in an assembled header (MSH) Segment
\* position "1" is the field separator, position "2" the token right after
\* the name, verbatim, and the j-th token after that, when non-empty, is
\* stored decoded at position j + 2; in every other segment the i-th token
\* after the name, when non-empty, is stored decoded at key i.
C11_FieldPositions ==
    (pc = "hl7_to_custom_json" /\ ~IsRaise(assembled))
        => \A n \in SegmentNames(HL7Message.str) :
             LET lines == LinesNamed(HL7Message.str, n)
                 occs == Occurrences(assembled, n)
             IN /\ Len(occs) = Len(lines)
                /\ \A o \in 1..Len(lines) :
                      LET toks == Tokens(lines[o])
                          seg == occs[o]
                      IN IF n = MSH
                         THEN /\ Get(seg, Str(<<"1">>), None) = Str(<<"|">>)
                              /\ Get(seg, Str(<<"2">>), None) = Str(toks[2])
                              /\ \A j \in 1..(Len(toks) - 2) :
                                    toks[j + 2] # <<>>
                                        => Get(seg, Str(IntToStr(j + 2)), None)
                                               = parse_field(toks[j + 2])
                         ELSE \A i \in 1..(Len(toks) - 1) :
                                 toks[i + 1] # <<>>
                                     => Get(seg, Str(IntToStr(i)), None) = parse_field(toks[i + 1])

C11_Witness ==
    /\ pc = "hl7_to_custom_json"
    /\ HL7Message = Str(<<"M", "S", "H", "|", "a", "^", "b", "|", "|", "a">>)
    /\ assembled = Dict(<< <<Str(MSH),
                             Dict(<< <<Str(<<"1">>), Str(<<"|">>)>>,
                                     <<Str(<<"2">>), Str(<<"a", "^", "b">>)>>,
                                     <<Str(<<"4">>), Str(<<"a">>)>> >>)>> >>)

\* C12: cardinality collapse -- in every returned Message a name that
\* occurs once maps to a bare Segment and a name that occurs m >= 2 times
\* maps to a sequence of exactly m Segments in line order; no name maps to
\* an empty or one-element sequence (and only the names that occur are keys).
C12_CardinalityCollapse ==
    (pc = "hl7_to_custom_json" /\ ~IsRaise(assembled))
        => /\ {assembled.dict[i][1] : i \in 1..Len(assembled.dict)}
                  = {Str(n) : n \in SegmentNames(HL7Message.str)}
           /\ \A n \in SegmentNames(HL7Message.str) :
                 LET lines == LinesNamed(HL7Message.str, n)
                     v == Get(assembled, Str(n), None)
                 IN IF Len(lines) = 1 THEN v = SegData(Tokens(lines[1]))
                    ELSE /\ IsList(v)
                         /\ Len(v.list) = Len(lines)
                         /\ \A o \in 1..Len(lines) : v.list[o] = SegData(Tokens(lines[o]))

C12_Witness ==
    /\ pc = "hl7_to_custom_json"
    /\ HL7Message = Str(<<"P", "I", "D", "|", "a", "\n", "P", "I", "D">>)
    /\ assembled = Dict(<< <<Str(<<"P", "I", "D">>),
                             List(<<Dict(<< <<Str(<<"1">>), Str(<<"a">>)>> >>), Dict(<<>>)>>)>> >>)

\* C13: empty fields are omitted -- in every Segment of every assembled
\* Message no position key maps to the empty scalar, and a token that is
\* empty in the raw line has no entry, for every segment type and position.
C13_EmptyFieldsOmitted ==
    (pc = "hl7_to_custom_json" /\ ~IsRaise(assembled))
        => \A n \in SegmentNames(HL7Message.str) :
             \A o \in 1..Len(Occurrences(assembled, n)) :
                LET seg == Occurrences(assembled, n)[o]
                    toks == Tokens(LinesNamed(HL7Message.str, n)[o])
                IN /\ \A i \in 1..Len(seg.dict) : seg.dict[i][2] # Str(<<>>)
                   /\ \A t \in 2..Len(toks) :
                         toks[t] = <<>> => ~HasKey(seg, Str(IntToStr(IF n = MSH THEN t ELSE t - 1)))

\* C14: tolerance of malformed lines -- hl7_to_custom_json never raises,
\* for any segment name (the header name and the empty name included), on
\* a short line or a line with no field separator at all.
C14_NeverRaises ==
    pc = "hl7_to_custom_json" => ~IsRaise(assembled)

(***************************************************************************)
(* Reference definitions for the projector.                                *)
(***************************************************************************)
PID == <<"P", "I", "D">>
CorrelationKey == Str(<<"m", "e", "s", "s", "a", "g", "e", "_", "c", "o", "n", "t", "r", "o", "l", "_", "i", "d">>)

Projected == pc = "convert_to_parquet_tables"

\* The segment names that occur in a list of Messages.
NamesOf(msgs) == UNION {{msgs[k].dict[i][1].str : i \in 1..Len(msgs[k].dict)} : k \in 1..Len(msgs)}

\* The number of occurrences of name n in the messages before the k-th.
RECURSIVE RowsBefore(_, _, _)
RowsBefore(msgs, n, k) ==
    IF k <= 1 THEN 0
    ELSE RowsBefore(msgs, n, k - 1) + Len(Occurrences(msgs[k - 1], n))

\* The rows of the table of name n, none when there is no such table.
TableRows(n) == Get(tables, Str(n), List(<<>>)).list

\* The position "10" of the header of a Message, the empty string when
\* there is no header or no such position.
ExpectedKey(m) ==
    IF ~HasKey(m, Str(MSH)) THEN Str(<<>>)
    ELSE IF HasKey(Get(m, Str(MSH), None), Str(<<"1", "0">>))
    THEN Get(Get(m, Str(MSH), None), Str(<<"1", "0">>), None)
    ELSE Str(<<>>)

\* A Message whose header occurs more than once.
RepeatedHeader(m) == IsList(Get(m, Str(MSH), Dict(<<>>)))

\* The column of a field position of a segment.
ColumnName(n, position) == Str(n \o <<"-">> \o position.str)

(***************************************************************************)
(* Properties of the projector (SpecProject).                              *)
(***************************************************************************)

\* C15: projection correlation -- every row built from an occurrence of a
\* segment of message m carries as message_control_id the value at position
\* "10" of m's header, or the empty string when m has no header or the
\* header has no position "10"; so all rows of one message carry one key.
C15_Correlation ==
    (Projected /\ ~IsRaise(tables))
        => \A k \in 1..Len(parsed_messages.list) :
             \A n \in NamesOf(parsed_messages.list) :
                HasKey(schema, Str(n))
                    => \A o \in 1..Len(Occurrences(parsed_messages.list[k], n)) :
                          LET r == RowsBefore(parsed_messages.list, n, k) + o
                          IN /\ r <= Len(TableRows(n))
                             /\ Get(TableRows(n)[r], CorrelationKey, None)
                                    = ExpectedKey(parsed_messages.list[k])

C15_Witness ==
    /\ Projected
    /\ source_msgs = StrList(<<<<"M", "S", "H", "|", "^", "|", "|", "|", "|", "|", "|", "|", "|", "a", "\n", "P", "I", "D", "|", "a", "\n">>, <<"P", "I", "D", "|", "a", "\n">>>>)
    /\ Len(TableRows(PID)) = 2
    /\ Get(TableRows(PID)[1], CorrelationKey, None) = Str(<<"a">>)
    /\ Get(TableRows(PID)[2], CorrelationKey, None) = Str(<<>>)

\* C16: schema filtering -- the result has a table for name S only if S is
\* in the schema and occurs in an input message, and every row of a table
\* holds columns of its own segment only; a name absent from the schema
\* raises no error (the projector raises exactly when a message repeats its
\* header, whatever the schema).
C16_SchemaFiltering ==
    Projected
        => /\ IsRaise(tables)
                  <=> \E k \in 1..Len(parsed_messages.list) :
                         RepeatedHeader(parsed_messages.list[k])
           /\ ~IsRaise(tables)
                  => /\ {tables.dict[i][1] : i \in 1..Len(tables.dict)}
                            = {Str(n) : n \in {x \in NamesOf(parsed_messages.list) :
                                                   HasKey(schema, Str(x))}}
                     /\ \A i \in 1..Len(tables.dict) :
                           \A r \in 1..Len(tables.dict[i][2].list) :
                              LET cells == tables.dict[i][2].list[r].dict
                              IN \A c \in 1..Len(cells) :
                                    \/ cells[c][1] = CorrelationKey
                                    \/ StartsWith(cells[c][1].str,
                                                  tables.dict[i][1].str \o <<"-">>)

C16_Witness ==
    /\ Projected
    /\ schema = SchemaOf(<<PID>>)
    /\ source_msgs = StrList(<<<<"M", "S", "H", "|", "^", "|", "|", "|", "|", "|", "|", "|", "|", "a", "\n", "P", "I", "D", "|", "a", "\n">>>>)
    /\ HasKey(parsed_messages.list[1], Str(MSH))
    /\ ~IsRaise(tables)
    /\ {tables.dict[i][1] : i \in 1..Len(tables.dict)} = {Str(PID)}

\* C17: row order and count -- the table of a schema name S holds exactly
\* one row per occurrence of S over all messages, ordered by message and
\* then by occurrence within the message, so the rows of one message are
\* contiguous.
C17_RowOrder ==
    (Projected /\ ~IsRaise(tables))
        => \A n \in NamesOf(parsed_messages.list) :
             HasKey(schema, Str(n))
                 => /\ Len(TableRows(n))
                           = RowsBefore(parsed_messages.list, n, Len(parsed_messages.list) + 1)
                    /\ \A k \in 1..Len(parsed_messages.list) :
                          \A o \in 1..Len(Occurrences(parsed_messages.list[k], n)) :
                             LET r == RowsBefore(parsed_messages.list, n, k) + o
                                 occ == Occurrences(parsed_messages.list[k], n)[o]
                             IN /\ r <= Len(TableRows(n))
                                /\ Len(TableRows(n)[r].dict) = Len(occ.dict) + 1
                                /\ \A i \in 1..Len(occ.dict) :
                                      Get(TableRows(n)[r], ColumnName(n, occ.dict[i][1]), None)
                                          = serialize_field(occ.dict[i][2])

C17_Witness ==
    /\ Projected
    /\ source_msgs = StrList(<<<<"P", "I", "D", "|", "a", "\n", "P", "I", "D", "|", "a", "^", "b", "\n">>, <<"P", "I", "D", "|", "a", "\n">>>>)
    /\ Len(TableRows(PID)) = 3
    /\ Get(TableRows(PID)[1], ColumnName(PID, Str(<<"1">>)), None) = Str(<<"a">>)
    /\ Get(TableRows(PID)[2], ColumnName(PID, Str(<<"1">>)), None) = Str(<<"[", "\"", "a", "\"", ",", " ", "\"", "b", "\"", "]">>)
    /\ Get(TableRows(PID)[3], ColumnName(PID, Str(<<"1">>)), None) = Str(<<"a">>)

\* C18: flat records -- every row has exactly the correlation key column
\* plus one column "<segment>-<position>" per position of its Segment, and
\* every column value, the correlation key included, is a string.
C18_FlatRecords ==
    (Projected /\ ~IsRaise(tables))
        => \A n \in NamesOf(parsed_messages.list) :
             \A k \in 1..Len(parsed_messages.list) :
                \A o \in 1..Len(Occurrences(parsed_messages.list[k], n)) :
                   LET r == RowsBefore(parsed_messages.list, n, k) + o
                       occ == Occurrences(parsed_messages.list[k], n)[o]
                   IN r <= Len(TableRows(n))
                         => LET cells == TableRows(n)[r].dict
                            IN /\ {cells[c][1] : c \in 1..Len(cells)}
                                      = {CorrelationKey}
                                            \cup {ColumnName(n, occ.dict[i][1]) :
                                                      i \in 1..Len(occ.dict)}
                               /\ \A c \in 1..Len(cells) : IsStr(cells[c][2])

\* C19: independence of messages -- for every way to cut the batch into
\* A ++ B, the projection of the batch has, for every segment name, the
\* rows of project(A) followed by the rows of project(B) (and raises exactly
\* when one of the two does); and the Messages decoded from a blob are the
\* Messages decoded from its parts, each message decoding as it does alone.
C19_Independence ==
    /\ Projected
           => \A k \in 0..Len(parsed_messages.list) :
                LET A == List(SubSeq(parsed_messages.list, 1, k))
                    B == List(SubSeq(parsed_messages.list, k + 1, Len(parsed_messages.list)))
                    tA == convert_to_parquet_tables(A, schema)
                    tB == convert_to_parquet_tables(B, schema)
                IN IF IsRaise(tA) \/ IsRaise(tB) THEN IsRaise(tables)
                   ELSE /\ ~IsRaise(tables)
                        /\ \A n \in NamesOf(parsed_messages.list) :
                              TableRows(n) = Get(tA, Str(n), List(<<>>)).list
                                                 \o Get(tB, Str(n), List(<<>>)).list
    /\ pc = "parse_multiple_hl7_messages"
           => /\ IsList(parsed_messages)
              /\ Len(parsed_messages.list) = Len(source_msgs.list)
              /\ \A i \in 1..Len(source_msgs.list) :
                    parsed_messages.list[i] = hl7_to_custom_json(source_msgs.list[i].str)
              /\ \A k \in 0..Len(source_msgs.list) :
                    LET texts == [i \in 1..Len(source_msgs.list) |-> source_msgs.list[i].str]
                        pA == parse_multiple_hl7_messages(Join(SubSeq(texts, 1, k), <<>>))
                        pB == parse_multiple_hl7_messages(
                                  Join(SubSeq(texts, k + 1, Len(texts)), <<>>))
                    IN IsList(pA) /\ IsList(pB) /\ parsed_messages.list = pA.list \o pB.list

C19_Witness ==
    /\ Projected
    /\ messages # NoValue
    /\ schema = SchemaOf(<<MSH, PID>>)
    /\ source_msgs = StrList(<<<<"M", "S", "H", "|", "^", "\n", "P", "I", "D", "|", "a", "\n">>, <<"M", "S", "H", "|", "^", "|", "|", "|", "|", "|", "|", "|", "|", "a", "\n">>>>)
    /\ Len(TableRows(MSH)) = 2
    /\ Len(TableRows(PID)) = 1
    /\ Get(TableRows(MSH)[1], CorrelationKey, None) = Str(<<>>)
    /\ Get(TableRows(MSH)[2], CorrelationKey, None) = Str(<<"a">>)

(***************************************************************************)
(* Properties of the decoder, continued (Spec).                            *)
(***************************************************************************)

\* C20: repetition elements are decoded as a single field is -- for a field
\* text with n >= 2 chunks separated by '~', the i-th element of the decoded
\* list equals parse_field of the i-th chunk, so a chunk with no component
\* separator yields a bare scalar (or sub-component list), not a one-element
\* list.
C20_RepetitionElements ==
    (pc # "start" /\ NumPieces(field.str, "~") >= 2)
        => /\ IsList(decoded)
           /\ Len(decoded.list) = NumPieces(field.str, "~")
           /\ \A i \in 1..NumPieces(field.str, "~") :
                 decoded.list[i] = parse_field(PieceOf(field.str, "~", i))

(***************************************************************************)
(* Properties of the encoder, continued (SpecEncoder).                     *)
(***************************************************************************)
\* An entry of a component list or sub-component list: a string or a
\* missing (null) entry.
IsEntry(e) == IsStr(e) \/ IsNone(e)
IsSubcomponentList(c) == IsList(c) /\ \A j \in 1..Len(c.list) : IsEntry(c.list[j])
IsComponentList(v) ==
    IsList(v) /\ \A i \in 1..Len(v.list) : IsEntry(v.list[i]) \/ IsSubcomponentList(v.list[i])

\* The rendering of an entry: its text, the empty text when it is missing.
RenderEntry(e) == IF IsNone(e) THEN <<>> ELSE e.str
RenderComponent(c) ==
    IF IsList(c) THEN Join([j \in 1..Len(c.list) |-> RenderEntry(c.list[j])], <<"&">>)
    ELSE RenderEntry(c)

\* C21: encoder on components -- flatten_value of a component list returns
\* its components joined by '^', a sub-component list rendered as its
\* entries joined by '&'; missing (null) and empty entries render as the
\* empty string in place, so k components give exactly k-1 '^'.
C21_EncodeComponents ==
    (pc = "flatten_value" /\ IsComponentList(value))
        => /\ encoded = Str(Join([i \in 1..Len(value.list) |-> RenderComponent(value.list[i])],
                                 <<"^">>))
           /\ Len(value.list) >= 1
                  => NumPieces(encoded.str, "^") = Len(value.list)

(***************************************************************************)
(* Properties of the splitter, continued (SpecSplit).                      *)
(***************************************************************************)

\* C22: blank lines are dropped -- for every non-blank message text, with
\* line-feed, carriage-return or CR-LF line breaks, the sequence getSegments
\* returns holds no empty or whitespace-only entry.
C22_BlankLinesDropped ==
    (pc = "getSegments" /\ Strip(msg.str) # <<>>)
        => \A i \in 1..Len(segments.list) : Strip(segments.list[i].str) # <<>>

(***************************************************************************)
(* Properties of the assembler, continued (SpecAssemble).                  *)
(***************************************************************************)
\* The Segments a Message holds, over all names.
RECURSIVE SegmentCount(_)
SegmentCount(items) ==
    IF Len(items) = 0 THEN 0
    ELSE (IF IsList(items[1][2]) THEN Len(items[1][2].list) ELSE 1) + SegmentCount(Tail(items))

\* C23: line-break independence -- hl7_to_custom_json returns for a text
\* the Message of its non-blank lines joined by '\n', whether the lines are
\* separated by '\n', '\r' or '\r\n' and whether blank lines lie between
\* them; a blank line never creates a Segment.
C23_LineBreakIndependence ==
    pc = "hl7_to_custom_json"
        => /\ assembled = hl7_to_custom_json(Join(SegmentLines(HL7Message.str), <<"\n">>))
           /\ ~IsRaise(assembled)
                  => SegmentCount(assembled.dict) = Len(SegmentLines(HL7Message.str))

C23_Witness ==
    /\ pc = "hl7_to_custom_json"
    /\ HL7Message = Str(<<"P", "I", "D", "|", "a", "\r", "\n", "\r", "P", "I", "D", "|", "a">>)
    /\ assembled = Dict(<< <<Str(PID),
                             List(<<Dict(<< <<Str(<<"1">>), Str(<<"a">>)>> >>),
                                    Dict(<< <<Str(<<"1">>), Str(<<"a">>)>> >>)>>)>> >>)

\* A line that is a segment name followed by the field separator only.
IsNameOnlyLine(line) == Len(Tokens(line)) = 2 /\ Tokens(line)[2] = <<>>

C25_CellSerialization ==
    /\ pc \in {"serialize_field", "flatten_cell"}
           => /\ IsStr(decoded) => value = decoded
              /\ IsList(decoded) => (IsStr(value) /\ json_loads(value.str) = decoded)
    /\ pc = "flatten_cell" => encoded = flatten_value(decoded)

C25_Witness ==
    /\ pc = "flatten_cell"
    /\ field = Str(<<"a", "^", "b", "&", "a">>)
    /\ value = Str(<<"[", "\"", "a", "\"", ",", " ", "[", "\"", "b", "\"", ",", " ", "\"", "a", "\"",
                     "]", "]">>)
    /\ encoded = Str(<<"a", "^", "b", "&", "a">>)

(***************************************************************************)
(* Properties of the projector, continued (SpecProject).                   *)
(***************************************************************************)

\* C26: projection does not mutate its inputs -- the step that runs
\* convert_to_parquet_tables leaves every input Message (the bare Segments
\* that were wrapped for normalization included) and the schema as they
\* were before the call.
C26_InputsUnchanged ==
    [][pc' = "convert_to_parquet_tables" => UNCHANGED <<parsed_messages, schema>>]_vars

C26_Witness ==
    /\ Projected
    /\ source_msgs = StrList(<<<<"P", "I", "D", "|", "a", "\n">>>>)
    /\ schema = SchemaOf(<<PID>>)
    /\ parsed_messages = List(<<Dict(<< <<Str(PID), Dict(<< <<Str(<<"1">>), Str(<<"a">>)>> >>)>> >>)>>)
    /\ Len(TableRows(PID)) = 1

(***************************************************************************)
(* Properties of the display rendering (SpecFormat).                       *)
(***************************************************************************)
\* The renderings in parts that are not empty, in order.
NonEmptyOf(parts) ==
    LET keep(i) == parts[i] # <<>>
        at == KeepIndices(Len(parts), keep)
    IN [k \in 1..Len(at) |-> parts[at[k]]]

\* format_value_list's result when vs are the values it renders.
Rendered(vs) ==
    Str(Join(NonEmptyOf([i \in 1..Len(vs) |-> flatten_value(vs[i]).str]), <<",", " ">>))

\* C27 (as claimed): format_value_list(vs) returns the flatten_value
\* renderings of the elements of vs in order, the empty ones dropped, joined
\* by ", " (never by '~'); an input that is not a list is treated as the
\* one-element list of it, and None as the empty list.
C27_DisplayRendering ==
    pc = "format_value_list"
        => formatted = Rendered(IF IsList(value_list) THEN value_list.list
                                ELSE IF IsNone(value_list) THEN <<>>
                                ELSE <<value_list>>)

\* C27 (amended): the same, a tuple being rendered element by element as a
\* list is; only an input that is neither a list nor a tuple is treated as
\* the one-element list of it.
C27_DisplayRenderingOfSequences ==
    pc = "format_value_list"
        => formatted = Rendered(IF IsList(value_list) THEN value_list.list
                                ELSE IF IsTuple(value_list) THEN value_list.tuple
                                ELSE IF IsNone(value_list) THEN <<>>
                                ELSE <<value_list>>)

C27_Witness ==
    /\ pc = "format_value_list"
    /\ value_list = List(<<Str(<<>>), List(<<Str(<<"a">>), Str(<<"b">>)>>)>>)
    /\ formatted = Str(<<"a", "^", "b">>)

\* C28: exactly one header per pipeline message.  Whenever
\* parse_multiple_hl7_messages returns on a blob, every Message of the
\* result has the key "MSH", mapped to a bare Segment (not a sequence) whose
\* position "1" is the field separator, so the correlation key of the
\* message is looked up without an error and the projection does not fail
\* on it.
C28_OneHeaderPerMessage ==
    (pc \in {"parse_multiple_hl7_messages", "convert_to_parquet_tables"}
        /\ IsList(parsed_messages))
    => /\ \A k \in 1..Len(parsed_messages.list) :
             LET m == parsed_messages.list[k]
             IN /\ HasKey(m, Str(MSH))
                /\ IsDict(Get(m, Str(MSH), None))
                /\ Get(Get(m, Str(MSH), None), Str(<<"1">>), None) = Str(<<"|">>)
                /\ ~IsRaise(message_id(m))
       /\ pc = "convert_to_parquet_tables" => ~IsRaise(tables)

\* Two messages read from a blob that does not start with a header, the
\* first made of the text before the header token.
C28_Witness ==
    /\ pc = "convert_to_parquet_tables"
    /\ raw_data = Str(<<"P", "I", "D", "|", "a", "\n", "M", "S", "H", "|", "|">>)
    /\ IsList(parsed_messages)
    /\ Len(parsed_messages.list) = 2
    /\ IsDict(tables)

\* C29: bounded retry.  invoke_with_backoff calls the model at most
\* max_retries times and always terminates.  It returns the first
\* successful response without a further call, calls again only after a
\* throttled call, raises an error other than throttling again at once, and
\* raises "Max retries exceeded" exactly when all max_retries attempts
\* were throttled.
Terminated == pc \in {"return", "raise"}

AllThrottled == \A i \in 1..Len(invocations.list) : invocations.list[i] = ThrottlingException

LastInvocation == invocations.list[Len(invocations.list)]

C29_RetrySafety ==
    /\ Len(invocations.list) <= max_retries.int
    \* every call but the last one was throttled
    /\ \A i \in 1..(Len(invocations.list) - 1) : invocations.list[i] = ThrottlingException
    \* a call that was not throttled ends the function with its outcome
    /\ (Len(invocations.list) > 0 /\ LastInvocation # ThrottlingException)
          => /\ Terminated
             /\ response = LastInvocation
             /\ pc = (IF LastInvocation \in Responses THEN "return" ELSE "raise")
    /\ pc = "return" => response \in Responses
    /\ Terminated
          => (response = MaxRetriesExceeded
                 <=> (AllThrottled /\ Len(invocations.list) = max_retries.int))
    /\ ~Terminated => response = NoValue

C29_BoundedRetry ==
    /\ []C29_RetrySafety
    /\ [][~Terminated]_vars
    /\ <>Terminated

\* The default limit of generate_mirth_js_code is used up by eight
\* throttled calls.
C29_Witness ==
    /\ pc = "raise"
    /\ max_retries = PyInt(max_retries_generate)
    /\ Len(invocations.list) = max_retries_generate
    /\ AllThrottled
    /\ response = MaxRetriesExceeded

\* C30: step ordering of the parser Lambda.  The workflow execution is
\* started at most once, and only after the raw upload, the parse and the
\* storing of every segment table have succeeded; the cleanup of the output
\* folder precedes the storing of each new table; a failure of the cleanup
\* does not end the run; the handler returns status 200 exactly when the
\* execution was started, and status 500 when the event has no
\* 'hl7_message' or any other step failed.
Calls == effects.list

StartedAt(i) == Calls[i] = Effect("start_execution", StateMachine, TRUE)

Started == \E i \in 1..Len(Calls) : StartedAt(i)

IsStore(i) == Calls[i].call = "put_object" /\ Calls[i].target # InputKey

IsCleanup(i) == Calls[i].call = "clear_s3_folder"

C30_StepOrdering ==
    \* started at most once
    /\ Cardinality({i \in 1..Len(Calls) : Calls[i].call = "start_execution"}) <= 1
    \* only after the upload, the parse and every store have succeeded
    /\ \A i \in 1..Len(Calls) :
          StartedAt(i)
          => /\ \E j \in 1..(i - 1) : Calls[j] = Effect("put_object", InputKey, TRUE)
             /\ IsList(parsed_messages)
             /\ IsDict(tables)
             /\ \A k \in 1..Len(tables.dict) :
                   \E j \in 1..(i - 1) :
                      Calls[j] = Effect("put_object", SegmentKey(tables.dict[k][1]), TRUE)
             /\ \A j \in 1..(i - 1) : Calls[j].ok \/ IsCleanup(j)
    \* the cleanup precedes every store
    /\ \A i \in 1..Len(Calls) : IsStore(i) => \E j \in 1..(i - 1) : IsCleanup(j)
    \* a failed cleanup does not end the run, any other failed call does
    /\ \A i \in 1..Len(Calls) :
          ~Calls[i].ok
          => IF IsCleanup(i) THEN i = Len(Calls) => pc = "get_object"
             ELSE i = Len(Calls) /\ pc = "return"
    \* the status
    /\ IF pc = "return"
       THEN /\ statusCode \in {PyInt(200), PyInt(500)}
            /\ statusCode = PyInt(200) <=> Started
       ELSE statusCode = NoValue /\ ~Started
    /\ (pc # "start" /\ (IsRaise(hl7_raw) \/ hl7_raw \in {None, Str(<<>>)}))
          => pc = "return" /\ statusCode = PyInt(500) /\ Calls = <<>>
    /\ (IsRaise(parsed_messages) \/ IsRaise(tables)) => pc = "return" /\ statusCode = PyInt(500)

\* The cleanup failed, both tables of the two messages were stored and the
\* execution was started.
C30_Witness ==
    /\ pc = "return"
    /\ statusCode = PyInt(200)
    /\ Len(Calls) = 6
    /\ Calls[2] = Effect("clear_s3_folder", OutputPrefix, FALSE)
    /\ IsStore(4) /\ IsStore(5)
    /\ StartedAt(6)

====
